---- MODULE Spec2Model ----
(***************************************************************************)
(* Two-agent dialogue orchestrator of two_agent_tinder_v2.py: the turn     *)
(* history, the provider adapters with their local fallback, the meeting   *)
(* detector and the run loop of TwoAgentChat.                              *)
(*                                                                         *)
(* Text.  A Python str is modelled as a sequence of atoms.  An atom is     *)
(* either a run of word characters (letters or digits, what \w matches) or *)
(* one non-word character (a blank, a punctuation mark).  Two adjacent     *)
(* word atoms belong to the same word ("marcarmos" is <<"marcar","mos">>,  *)
(* "9h" is <<"9","h">>), so that \b, the word boundary of the regular      *)
(* expressions, is the change between a word atom and a non-word atom or   *)
(* an end of the text.  A word is cut into several atoms only where a part *)
(* of it is itself an entry of a vocabulary ("satisfeito" is               *)
(* <<"satis","feito">>); an entry of a vocabulary is never cut.            *)
(***************************************************************************)
EXTENDS Integers, Sequences, FiniteSets, TLC

\* Largest run.max_messages the configurations are drawn from.
MaxMessages == 3
\* A further call of run_until_meeting_or_max is started only while the
\* history it may produce stays within MaxHistory turns.
MaxHistory == 3
\* Longest turn list meeting_agreed and build_messages_for are applied to
\* directly.
MaxTurns == 3

(***************************************************************************)
(* Text primitives                                                         *)
(***************************************************************************)
Whitespace == {" ", "\n"}

NonWordAtoms == Whitespace \cup {",", ".", "?", "!", ":", "-", "(", ")"}

IsSpace(a) == a \in Whitespace

IsWord(a) == a \notin NonWordAtoms

\* Digit runs of one or two digits, what \d{1,2} can consume entirely.
Digits12 == {"9", "19", "00", "30", "18", "20", "17"}

\* re.IGNORECASE: the case folding of the atoms that occur capitalised.
Lower(a) ==
  CASE a = "Vamos" -> "vamos"
    [] a = "Perfeito" -> "perfeito"
    [] a = "Café" -> "café"
    [] a = "OK" -> "ok"
    [] OTHER -> a

\* \b at position i, between atom i-1 and atom i (i in 1..Len(t)+1).
Boundary(t, i) ==
  LET left == i > 1 /\ i - 1 <= Len(t) /\ IsWord(t[i - 1])
      right == i >= 1 /\ i <= Len(t) /\ IsWord(t[i])
  IN left # right

\* The phrase p occurs in t at position i, case-insensitively.
At(t, i, p) ==
  /\ i >= 1
  /\ i + Len(p) - 1 <= Len(t)
  /\ \A k \in 1..Len(p) : Lower(t[i + k - 1]) = p[k]

\* Some phrase of ps occurs in t, with \b required before it (lb) and after
\* it (rb).
Search(t, ps, lb, rb) ==
  \E i \in 1..Len(t) :
    /\ \E p \in ps : Lower(t[i]) = p[1]
    /\ lb => Boundary(t, i)
    /\ \E p \in ps : At(t, i, p) /\ (rb => Boundary(t, i + Len(p)))

\* str.strip(): leading and trailing whitespace removed.
strip(t) ==
  LET keep == {i \in 1..Len(t) : ~IsSpace(t[i])}
  IN IF keep = {} THEN <<>>
     ELSE SubSeq(t, CHOOSE i \in keep : \A j \in keep : i <= j,
                    CHOOSE i \in keep : \A j \in keep : i >= j)

\* Truth value of a Python str: the empty string is false.
Truthy(t) == t # <<>>

(***************************************************************************)
(* MEETING_PATTERNS, MEETING_RE, ACCEPTANCE_RE                             *)
(***************************************************************************)
\* r"\b(encontro|encontrar|ver[- ]?nos|combinar|marcar|
\*      vamos (?:tomar|beber|jantar)|café|jantar|almoço)\b"
Phrases1 ==
  {<<"encontro">>, <<"encontrar">>, <<"ver", "-", "nos">>,
   <<"ver", " ", "nos">>, <<"ver", "nos">>, <<"combinar">>, <<"marcar">>,
   <<"vamos", " ", "tomar">>, <<"vamos", " ", "beber">>,
   <<"vamos", " ", "jantar">>, <<"café">>, <<"jantar">>, <<"almoço">>}

Pattern1(t) == Search(t, Phrases1, TRUE, TRUE)

\* r"\b(hoje|amanhã|segunda|terça|terça-feira|quarta|quinta|quinta-feira|
\*      sexta|sábado|domingo)\b"
Phrases2 ==
  {<<"hoje">>, <<"amanhã">>, <<"segunda">>, <<"terça">>,
   <<"terça", "-", "feira">>, <<"quarta">>, <<"quinta">>,
   <<"quinta", "-", "feira">>, <<"sexta">>, <<"sábado">>, <<"domingo">>}

Pattern2(t) == Search(t, Phrases2, TRUE, TRUE)

\* r"\bàs?\s*\d{1,2}[:h]\d{0,2}\b"
Pattern3(t) ==
  \E i \in 1..Len(t) :
    /\ Lower(t[i]) \in {"à", "às"}
    /\ Boundary(t, i)
    /\ \E j \in (i + 1)..(Len(t) - 1) :
         /\ \A s \in (i + 1)..(j - 1) : IsSpace(t[s])
         /\ t[j] \in Digits12
         /\ Lower(t[j + 1]) \in {":", "h"}
         /\ \/ Boundary(t, j + 2)
            \/ /\ j + 2 <= Len(t)
               /\ t[j + 2] \in Digits12
               /\ Boundary(t, j + 3)

\* r"\b19:00|18:30|20:00|17:30\b": the alternation binds weaker than \b.
Phrases4 == {<<"18", ":", "30">>, <<"20", ":", "00">>}

Pattern4(t) ==
  \/ Search(t, {<<"19", ":", "00">>}, TRUE, FALSE)
  \/ Search(t, Phrases4, FALSE, FALSE)
  \/ Search(t, {<<"17", ":", "30">>}, FALSE, TRUE)

\* r"\bfunciona|pode ser|combinado|feito|perfeito|fechado\b"
Phrases5 ==
  {<<"pode", " ", "ser">>, <<"combinado">>, <<"feito">>, <<"perfeito">>}

Pattern5(t) ==
  \/ Search(t, {<<"funciona">>}, TRUE, FALSE)
  \/ Search(t, Phrases5, FALSE, FALSE)
  \/ Search(t, {<<"fechado">>}, FALSE, TRUE)

\* MEETING_PATTERNS joined with "|": MEETING_RE.search(t) is not None.
\* (The text is bound once, as a value, for all five patterns.)
MEETING_RE(text) ==
  \E t \in {text} :
    Pattern1(t) \/ Pattern2(t) \/ Pattern3(t) \/ Pattern4(t) \/ Pattern5(t)

\* r"\b(combinado|feito|perfeito|fechado|ok)\b"
AcceptancePhrases ==
  {<<"combinado">>, <<"feito">>, <<"perfeito">>, <<"fechado">>, <<"ok">>}

ACCEPTANCE_RE(text) ==
  \E t \in {text} : Search(t, AcceptancePhrases, TRUE, TRUE)

(***************************************************************************)
(* Texts of the program                                                    *)
(***************************************************************************)
\* "Vamos combinar um café quinta às 19:00?"
ConcreteSuggestion ==
  <<"Vamos", " ", "combinar", " ", "um", " ", "café", " ", "quinta", " ",
    "às", " ", "19", ":", "00", "?">>

\* "Adoro a energia. Que tal marcarmos algo leve para nos conhecermos?"
GenericSuggestion ==
  <<"Adoro", " ", "a", " ", "energia", ".", " ", "Que", " ", "tal", " ",
    "marcar", "mos", " ", "algo", " ", "leve", " ", "para", " ", "nos", " ",
    "conhecermos", "?">>

\* "Inicia a conversa com uma abertura natural e descontraída."
DefaultKickoff ==
  <<"Inicia", " ", "a", " ", "conversa", " ", "com", " ", "uma", " ",
    "abertura", " ", "natural", " ", "e", " ", "descontraída", ".">>

\* "(provider unavailable)"
UnavailableNote == <<"(", "provider", " ", "unavailable", ")">>

\* f"(provider error: {exc})"
ErrorNote(exc) == <<"(", "provider", " ", "error", ":", " ">> \o exc \o <<")">>

\* "..."
Placeholder == <<".", ".", ".">>

\* Optional[str]: None is the empty sequence, a value v is <<v>>.
None == <<>>

Some(v) == <<v>>

\* Python's "x or default" on an Optional[str].
OrElse(opt, default) ==
  IF opt # None /\ Truthy(opt[1]) THEN opt[1] ELSE default

(***************************************************************************)
(* Inputs                                                                  *)
(***************************************************************************)
NameA == "Homem (40)"

NameB == "Mulher (35)"

PreambleA == <<"You are a playful Portuguese man in his 40s chatting on Tinder.">>

PreambleB == <<"You are a witty Portuguese woman in her mid-30s replying on Tinder.">>

\* Opening instructions: none, the empty string, and one inside the
\* meeting vocabulary ("Convida-a para jantar.").
OpeningInvite == <<"Convida", "-", "a", " ", "para", " ", "jantar", ".">>

PromptsA == {None, Some(<<>>), Some(OpeningInvite)}

PromptsB == {None, Some(OpeningInvite)}

TurnDelays == {0, 1}

\* The arguments of export_markdown and the clock readings of line 164,
\* formatted "%Y-%m-%d %H:%M".
Paths == {"tinder_conversation.md", "copy.md"}

Title == <<"Do", " ", "Match", " ", "ao", " ", "Cappuccino">>

Subtitles == {None, Some(<<>>), Some(<<"pt", "-", "PT">>)}

Timestamps == {"2026-11-02 17:45", "2026-11-02 17:46"}

\* What the remote chat completion call can do: raise, return a response
\* whose reading raises (line 93 or 94), return no choice, return a choice
\* whose content is None or a str.
RemoteContents ==
  {None, Some(<<" ">>), Some(<<" ", "Olá", "!", "\n">>),
   Some(<<"Café", " ", "amanhã", "?">>)}

ExcTexts == {<<"timeout">>}

NoCall == [kind |-> "none", content |-> None, exc |-> <<>>]

RemoteOutcomes ==
  [kind : {"raise", "bad_response"}, content : {None}, exc : ExcTexts]
  \cup [kind : {"no_choices"}, content : {None}, exc : {<<>>}]
  \cup [kind : {"content"}, content : RemoteContents, exc : {<<>>}]

\* Turn texts meeting_agreed is applied to directly.
TextHowAreYou == <<"Como", " ", "estás", "?">>

TextProposal ==
  <<"Vamos", " ", "marcar", " ", "café", " ", "quinta", " ", "às", " ",
    "19", ":", "00", "?">>

TextAt9h == <<"às", " ", "9", "h">>

TextPerfect == <<"Perfeito", ",", " ", "combinado", "!">>

TextSatisfied == <<"satis", "feito">>

TextOk == <<"OK", "!">>

SampleTexts ==
  {TextHowAreYou, TextProposal, TextAt9h, TextPerfect, TextSatisfied, TextOk,
   GenericSuggestion}

\* The turn lists of at most n turns over the speakers and texts given.
TurnLists(speakers, texts, n) ==
  UNION {[1..k -> [speaker : speakers, text : texts]] : k \in 0..n}

(***************************************************************************)
(* State                                                                   *)
(***************************************************************************)
VARIABLES
  agents,           \* TwoAgentChat.agents: <<agent_a, agent_b>>
  run,              \* TwoAgentChat.run: the RunConfig
  providers,        \* TwoAgentChat.providers: name -> Provider
  turns,            \* TwoAgentChat.turns
  pc,               \* "idle"; in run_until_meeting_or_max: "while" (line
                    \* 150), "break" (line 158), "exhausted" (line 150
                    \* false), "raised" (an exception left the call); after
                    \* a direct call: "meeting_agreed", "build_messages_for",
                    \* "generate"
  current_index,    \* local of run_until_meeting_or_max
  turns_taken,      \* local of run_until_meeting_or_max
  prompt_messages,  \* local: the context of the last provider call
  outcome,          \* what the remote call of the last generate did
  reply,            \* local: what the last generate returned, line 154
  agreed,           \* the last value of meeting_agreed
  start_len,        \* len(self.turns) when the current call started
  slept,            \* number of time.sleep calls so far
  files,            \* the file system: path -> None or Some(content)
  export_call       \* the arguments of the last export_markdown call

vars ==
  <<agents, run, providers, turns, pc, current_index, turns_taken,
    prompt_messages, outcome, reply, agreed, start_len, slept, files,
    export_call>>

(***************************************************************************)
(* Provider                                                                *)
(***************************************************************************)
\* Provider.__init__: enabled only with the openai package, a key and a
\* client whose construction did not raise.
Provider(has_openai, key, client_ok) ==
  LET ok == has_openai /\ key /\ client_ok
  IN [_enabled |-> ok, _client |-> ok]

\* A call ends by returning a value or by raising an exception.
Return(v) == [raised |-> FALSE, value |-> v]

Raise(exc) == [raised |-> TRUE, value |-> exc]

\* next((m["content"] for m in reversed(messages) if m["role"] == "user"), "")
LastUser_first(messages) ==
  LET us == {i \in 1..Len(messages) : messages[i].role = "user"}
  IN IF us = {} THEN <<>>
     ELSE messages[CHOOSE i \in us : \A j \in us : i <= j].content

LastUser(messages) ==
  LET us == {i \in 1..Len(messages) : messages[i].role = "user"}
  IN IF us = {} THEN <<>>
     ELSE messages[CHOOSE i \in us : \A j \in us : i >= j].content

stub_without_note(messages, note) ==
  IF MEETING_RE(LastUser(messages))
  THEN strip(ConcreteSuggestion)
  ELSE strip(GenericSuggestion)

stub_always_generic(messages, note) ==
  strip(GenericSuggestion \o <<" ">> \o note)

stub(messages, note) ==
  IF MEETING_RE(LastUser(messages))
  THEN strip(ConcreteSuggestion \o <<" ">> \o note)
  ELSE strip(GenericSuggestion \o <<" ">> \o note)

\* The body of the try of generate, lines 87-94: the remote call and the
\* reading of its response.
TryBody(o) ==
  CASE o.kind \in {"raise", "bad_response"} -> Raise(o.exc)
    [] o.kind = "no_choices" -> Return(strip(<<>>))
    [] OTHER -> Return(strip(OrElse(o.content, <<>>)))

generate_without_except(provider, messages, o) ==
  IF provider._enabled /\ provider._client
  THEN TryBody(o)
  ELSE Return(stub(messages, UnavailableNote))

\* Provider.generate under the outcome o of the remote call.
generate(provider, messages, o) ==
  IF provider._enabled /\ provider._client
  THEN IF TryBody(o).raised
       THEN Return(stub(messages, ErrorNote(TryBody(o).value)))
       ELSE TryBody(o)
  ELSE Return(stub(messages, UnavailableNote))

after_generate_disabled_on_error(provider, o) ==
  IF o.kind \in {"raise", "bad_response"}
  THEN [_enabled |-> FALSE, _client |-> FALSE] ELSE provider

\* The adapter after a call of generate, the remote call doing o: generate
\* assigns no attribute of self.
after_generate(provider, o) == provider

(***************************************************************************)
(* meeting_agreed                                                          *)
(***************************************************************************)
meeting_agreed_no_pattern5(ts) ==
  IF Len(ts) < 2 THEN FALSE
  ELSE \E previous \in {ts[Len(ts) - 1].text} : \E latest \in {ts[Len(ts)].text} :
         /\ Pattern1(previous) \/ Pattern2(previous) \/ Pattern3(previous)
            \/ Pattern4(previous)
         /\ ACCEPTANCE_RE(latest) \/ MEETING_RE(latest)

meeting_agreed_acceptance_only(ts) ==
  IF Len(ts) < 2 THEN FALSE
  ELSE \E previous \in {ts[Len(ts) - 1].text} : \E latest \in {ts[Len(ts)].text} :
         MEETING_RE(previous) /\ ACCEPTANCE_RE(latest)

meeting_agreed(ts) ==
  IF Len(ts) < 2 THEN FALSE
  ELSE LET previous == ts[Len(ts) - 1].text
           latest == ts[Len(ts)].text
           intent == MEETING_RE(previous)
           acceptance == ACCEPTANCE_RE(latest) \/ MEETING_RE(latest)
       IN intent /\ acceptance

(***************************************************************************)
(* TwoAgentChat                                                            *)
(***************************************************************************)
AgentConfig(name, preamble, prompt) ==
  [name |-> name, system_preamble |-> preamble, initial_prompt |-> prompt]

RunConfig(max_messages, turn_delay_s) ==
  [max_messages |-> max_messages, turn_delay_s |-> turn_delay_s]

\* TwoAgentChat.__init__: a later entry of the dict literal replaces an
\* earlier one of the same key.
Providers(agent_a, agent_b, provider_a, provider_b) ==
  (agent_b.name :> provider_b) @@ (agent_a.name :> provider_a)

build_messages_for_default_only(speaker) ==
  LET system == <<[role |-> "system", content |-> speaker.system_preamble]>>
  IN IF turns = <<>>
     THEN system \o <<[role |-> "user", content |-> DefaultKickoff]>>
     ELSE system \o [i \in 1..Len(turns) |->
                       [role |-> IF turns[i].speaker = speaker.name
                                 THEN "assistant" ELSE "user",
                        content |-> turns[i].text]]

build_messages_for_roles_swapped(speaker) ==
  LET system == <<[role |-> "system", content |-> speaker.system_preamble]>>
  IN IF turns = <<>>
     THEN system \o <<[role |-> "user",
                       content |-> OrElse(speaker.initial_prompt, DefaultKickoff)]>>
     ELSE system \o [i \in 1..Len(turns) |->
                       [role |-> IF turns[i].speaker = speaker.name
                                 THEN "user" ELSE "assistant",
                        content |-> turns[i].text]]

build_messages_for_kickoff_always(speaker) ==
  LET system == <<[role |-> "system", content |-> speaker.system_preamble],
                  [role |-> "user",
                   content |-> OrElse(speaker.initial_prompt, DefaultKickoff)]>>
  IN system \o [i \in 1..Len(turns) |->
                  [role |-> IF turns[i].speaker = speaker.name
                            THEN "assistant" ELSE "user",
                   content |-> turns[i].text]]

build_messages_for(speaker) ==
  LET system == <<[role |-> "system", content |-> speaker.system_preamble]>>
  IN IF turns = <<>>
     THEN system \o <<[role |-> "user",
                       content |-> OrElse(speaker.initial_prompt, DefaultKickoff)]>>
     ELSE system \o [i \in 1..Len(turns) |->
                       [role |-> IF turns[i].speaker = speaker.name
                                 THEN "assistant" ELSE "user",
                        content |-> turns[i].text]]

append_turn(speaker, text) ==
  Append(turns, [speaker |-> speaker.name, text |-> strip(text)])

\* open(path, "w"): the file is created, or truncated if it exists.
Opened(fs, path) == [fs EXCEPT ![path] = Some(<<>>)]

\* open(path, "a"): the content of an existing file is kept.
Opened_for_append(fs, path) ==
  IF fs[path] = None THEN [fs EXCEPT ![path] = Some(<<>>)] ELSE fs

\* handle.write(text)
Written(fs, path, text) == [fs EXCEPT ![path] = Some(fs[path][1] \o text)]

\* Lines 170-171: one write per turn.
RECURSIVE WriteTurns(_, _, _)
WriteTurns(fs, path, ts) ==
  IF ts = <<>> THEN fs
  ELSE WriteTurns(Written(fs, path,
                          <<"**", Head(ts).speaker, "**", ":", " ">>
                            \o strip(Head(ts).text) \o <<"\n", "\n">>),
                  path, Tail(ts))

\* Lines 166-171: the writes to the opened file.
WriteDocument(opened, path, title, subtitle, now) ==
  LET titled == Written(opened, path, <<"#", " ">> \o title \o <<"\n", "\n">>)
      subtitled == IF Truthy(OrElse(subtitle, <<>>))
                   THEN Written(titled, path,
                                <<"_">> \o subtitle[1] \o <<"_", "\n", "\n">>)
                   ELSE titled
      stamped == Written(subtitled, path,
                         <<">", " ", "Transcript", " ", "gerado", " ", "em",
                           " ", now, "\n", "\n", "---", "\n", "\n">>)
  IN WriteTurns(stamped, path, turns)

export_markdown_append(path, title, subtitle, now) ==
  WriteDocument(Opened_for_append(files, path), path, title, subtitle, now)

\* The file system after export_markdown(path, title, subtitle) at time now.
export_markdown(path, title, subtitle, now) ==
  WriteDocument(Opened(files, path), path, title, subtitle, now)

\* Line 150: while turns_taken < self.run.max_messages.
LoopCondition_off_by_one == turns_taken <= run.max_messages

LoopCondition_stops_early == turns_taken + 1 < run.max_messages

LoopCondition == turns_taken < run.max_messages

\* Line 155: reply or "...".
ReplyOrPlaceholder_identity(r) == r

ReplyOrPlaceholder(r) == IF Truthy(r) THEN r ELSE Placeholder

\* Line 161: current_index = 1 - current_index.
NextIndex_no_flip == current_index

NextIndex == 1 - current_index

\* The state of a TwoAgentChat after __init__, no call made yet.
Constructed(agent_a, agent_b, run_config, provider_a, provider_b, history) ==
  /\ agents = <<agent_a, agent_b>>
  /\ run = run_config
  /\ providers = Providers(agent_a, agent_b, provider_a, provider_b)
  /\ turns = history
  /\ pc = "idle"
  /\ current_index = 0
  /\ turns_taken = 0
  /\ prompt_messages = <<>>
  /\ outcome = NoCall
  /\ reply = <<>>
  /\ agreed = FALSE
  /\ start_len = 0
  /\ slept = 0
  /\ files = [p \in Paths |-> None]
  /\ export_call = None

Init ==
  \E name_b \in {NameA, NameB}, pa \in PromptsA, pb \in PromptsB,
     mm \in 0..MaxMessages, delay \in TurnDelays,
     has_openai \in BOOLEAN, key_a \in BOOLEAN, key_b \in BOOLEAN,
     client_a \in BOOLEAN, client_b \in BOOLEAN :
    Constructed(AgentConfig(NameA, PreambleA, pa),
                AgentConfig(name_b, PreambleB, pb),
                RunConfig(mm, delay),
                Provider(has_openai, key_a, client_a),
                Provider(has_openai, key_b, client_b),
                <<>>)

\* A call of run_until_meeting_or_max, lines 148-149.
Start ==
  /\ pc \in {"idle", "break", "exhausted", "raised"}
  /\ Len(turns) + run.max_messages <= MaxHistory
  /\ current_index' = 0
  /\ turns_taken' = 0
  /\ start_len' = Len(turns)
  /\ pc' = "while"
  /\ UNCHANGED <<agents, run, providers, turns, prompt_messages, outcome,
                 reply, agreed, slept, files, export_call>>

\* One iteration of the loop, lines 150-161, the remote call doing o.  (The
\* values computed on the way are bound once each.)
Turn(o) ==
  /\ pc = "while"
  /\ LoopCondition
  /\ LET agent == agents[current_index + 1]
         provider == providers[agent.name]
     IN \E messages \in {build_messages_for(agent)} :
        \E g \in {generate(provider, messages, o)} :
          /\ prompt_messages' = messages
          /\ outcome' = o
          /\ providers' = [providers EXCEPT
                             ![agent.name] = after_generate(provider, o)]
          /\ IF g.raised
             THEN /\ pc' = "raised"
                  /\ UNCHANGED <<turns, turns_taken, reply, agreed,
                                 current_index, slept>>
             ELSE \E now \in {append_turn(agent, ReplyOrPlaceholder(g.value))} :
                  \E ok \in {meeting_agreed(now)} :
                    /\ reply' = g.value
                    /\ turns' = now
                    /\ turns_taken' = turns_taken + 1
                    /\ agreed' = ok
                    /\ IF ok
                       THEN /\ pc' = "break"
                            /\ UNCHANGED <<current_index, slept>>
                       ELSE /\ slept' = IF run.turn_delay_s > 0
                                        THEN slept + 1 ELSE slept
                            /\ current_index' = NextIndex
                            /\ pc' = "while"
  /\ UNCHANGED <<agents, run, start_len, files, export_call>>

\* The loop condition of line 150 is false: the call returns.
LoopExit ==
  /\ pc = "while"
  /\ ~LoopCondition
  /\ pc' = "exhausted"
  /\ UNCHANGED <<agents, run, providers, turns, current_index, turns_taken,
                 prompt_messages, outcome, reply, agreed, start_len, slept,
                 files, export_call>>

\* The outcomes the current speaker's provider can meet: a disabled
\* provider issues no remote call.
Outcomes ==
  LET provider == providers[agents[current_index + 1].name]
  IN IF provider._enabled /\ provider._client THEN RemoteOutcomes ELSE {NoCall}

Step == (\E o \in Outcomes : Turn(o)) \/ LoopExit

Next == Start \/ Step

Spec == Init /\ [][Next]_vars

\* A step of a running call as pc and turns_taken show it: an iteration adds
\* one to turns_taken and stays in the loop or breaks, the loop test that
\* fails returns.  Under Spec these are exactly the steps of Step, and one is
\* possible whenever pc = "while".
Progress ==
  /\ pc = "while"
  /\ \/ /\ turns_taken < run.max_messages
        /\ turns_taken' = turns_taken + 1
        /\ pc' \in {"while", "break"}
     \/ /\ ~(turns_taken < run.max_messages)
        /\ turns_taken' = turns_taken
        /\ pc' = "exhausted"

\* The loop is sequential code and every provider call returns: a call that
\* has started keeps taking its steps.
FairSpec == Spec /\ WF_<<pc, turns_taken>>(Progress)

(***************************************************************************)
(* meeting_agreed and build_messages_for called directly                   *)
(***************************************************************************)
InitAgreed ==
  \E history \in TurnLists({NameA, NameB}, SampleTexts, MaxTurns) :
    Constructed(AgentConfig(NameA, PreambleA, None),
                AgentConfig(NameB, PreambleB, None),
                RunConfig(MaxMessages, 0),
                Provider(FALSE, FALSE, TRUE),
                Provider(FALSE, FALSE, TRUE),
                history)

\* meeting_agreed(chat.turns)
Detect ==
  /\ pc = "idle"
  /\ agreed' = meeting_agreed(turns)
  /\ pc' = "meeting_agreed"
  /\ UNCHANGED <<agents, run, providers, turns, current_index, turns_taken,
                 prompt_messages, outcome, reply, start_len, slept, files,
                 export_call>>

SpecAgreed == InitAgreed /\ [][Detect]_vars

InitBuild ==
  \E name_b \in {NameA, NameB}, pa \in PromptsA, pb \in PromptsB :
  \E history \in TurnLists({NameA, name_b}, {TextHowAreYou, TextProposal},
                           MaxTurns) :
    Constructed(AgentConfig(NameA, PreambleA, pa),
                AgentConfig(name_b, PreambleB, pb),
                RunConfig(MaxMessages, 0),
                Provider(FALSE, FALSE, TRUE),
                Provider(FALSE, FALSE, TRUE),
                history)

\* chat.build_messages_for(chat.agents[i])
Build(i) ==
  /\ pc = "idle"
  /\ current_index' = i
  /\ prompt_messages' = build_messages_for(agents[i + 1])
  /\ pc' = "build_messages_for"
  /\ UNCHANGED <<agents, run, providers, turns, turns_taken, outcome, reply,
                 agreed, start_len, slept, files, export_call>>

SpecBuild == InitBuild /\ [][\E i \in {0, 1} : Build(i)]_vars

(***************************************************************************)
(* export_markdown between the runs of a chat without credentials          *)
(***************************************************************************)
InitExport ==
  \E pa \in {None, Some(OpeningInvite)}, mm \in 0..MaxMessages :
    Constructed(AgentConfig(NameA, PreambleA, pa),
                AgentConfig(NameB, PreambleB, None),
                RunConfig(mm, 0),
                Provider(FALSE, FALSE, TRUE),
                Provider(FALSE, FALSE, TRUE),
                <<>>)

\* chat.export_markdown(path, title, subtitle), the clock reading now; the
\* code is sequential, so no export happens inside a run.
Export(path, title, subtitle, now) ==
  /\ pc # "while"
  /\ files' = export_markdown(path, title, subtitle, now)
  /\ export_call' = Some([path |-> path, title |-> title,
                          subtitle |-> subtitle, now |-> now])
  /\ UNCHANGED <<agents, run, providers, turns, pc, current_index,
                 turns_taken, prompt_messages, outcome, reply, agreed,
                 start_len, slept>>

NextExport ==
  \/ Start
  \/ Step
  \/ \E path \in Paths, subtitle \in Subtitles, now \in Timestamps :
       Export(path, Title, subtitle, now)

SpecExport == InitExport /\ [][NextExport]_vars

(***************************************************************************)
(* Provider.generate called directly on the context of a given history     *)
(***************************************************************************)
InitGenerate ==
  \E name_b \in {NameA, NameB}, pa \in {None, Some(OpeningInvite)},
     key \in BOOLEAN :
  \E history \in TurnLists({NameA, name_b}, {TextHowAreYou, TextProposal},
                           MaxTurns) :
    Constructed(AgentConfig(NameA, PreambleA, pa),
                AgentConfig(name_b, PreambleB, None),
                RunConfig(MaxMessages, 0),
                Provider(TRUE, key, TRUE),
                Provider(TRUE, key, TRUE),
                history)

\* chat.providers[agent.name].generate(chat.build_messages_for(agent)) for
\* agent = chat.agents[i], the remote call doing o.
Generate(i, o) ==
  /\ pc = "idle"
  /\ LET agent == agents[i + 1]
         provider == providers[agent.name]
     IN /\ o \in (IF provider._enabled /\ provider._client
                  THEN RemoteOutcomes ELSE {NoCall})
        /\ \E messages \in {build_messages_for(agent)} :
           \E g \in {generate(provider, messages, o)} :
             /\ ~g.raised
             /\ prompt_messages' = messages
             /\ reply' = g.value
        /\ providers' = [providers EXCEPT
                           ![agent.name] = after_generate(provider, o)]
  /\ current_index' = i
  /\ outcome' = o
  /\ pc' = "generate"
  /\ UNCHANGED <<agents, run, turns, turns_taken, agreed, start_len, slept,
                 files, export_call>>

SpecGenerate ==
  InitGenerate
    /\ [][\E i \in {0, 1}, o \in RemoteOutcomes \cup {NoCall} :
            Generate(i, o)]_vars

(***************************************************************************)
(* Properties                                                              *)
(***************************************************************************)
DistinctNames == agents[1].name # agents[2].name

ValidConfiguration ==
  DistinctNames /\ run.max_messages > 0 /\ run.turn_delay_s >= 0

Ended == pc \in {"break", "exhausted"}

BothDisabled == \A n \in DOMAIN providers : ~providers[n]._enabled

Alternates(ts) ==
  \A i \in 1..(Len(ts) - 1) : ts[i].speaker # ts[i + 1].speaker

\* The text has a character that is not whitespace.
NonBlank(t) == \E k \in 1..Len(t) : t[k] \notin Whitespace

Contains(t, part) ==
  \E i \in 1..(Len(t) - Len(part) + 1) : SubSeq(t, i, i + Len(part) - 1) = part

LastTurn == turns[Len(turns)]

\* C1: during a call of run_until_meeting_or_max started from an empty
\* history the number of recorded turns is at most run.max_messages,
\* whatever the providers reply.
C1_TurnsWithinBudget == start_len = 0 => Len(turns) <= run.max_messages

C1_Witness ==
  /\ start_len = 0
  /\ pc = "exhausted"
  /\ run.max_messages = MaxMessages
  /\ Len(turns) = MaxMessages
  /\ outcome.kind = "raise"

\* C2: during a call started from an empty history with two agents of
\* distinct names, consecutive turns have different speakers, the first
\* turn is agent_a's and every speaker is one of the two agent names.
C2_SpeakersAlternate ==
  (start_len = 0 /\ DistinctNames) =>
    /\ Alternates(turns)
    /\ turns # <<>> => turns[1].speaker = agents[1].name
    /\ \A i \in 1..Len(turns) :
         turns[i].speaker \in {agents[1].name, agents[2].name}

C2_Witness ==
  /\ start_len = 0
  /\ DistinctNames
  /\ Len(turns) = 3
  /\ turns[1].speaker = NameA
  /\ turns[2].speaker = NameB
  /\ turns[3].speaker = NameA

\* C3: no recorded turn is empty after trimming, whatever generate returned;
\* a reply that is empty is recorded as the placeholder "...".
C3_NoEmptyTurn ==
  /\ \A i \in 1..Len(turns) : NonBlank(turns[i].text)
  /\ (turns # <<>> /\ ~NonBlank(reply)) => LastTurn.text = Placeholder

C3_Witness ==
  /\ turns # <<>>
  /\ outcome.kind = "content"
  /\ outcome.content = Some(<<" ">>)
  /\ reply = <<>>
  /\ LastTurn.text = <<".", ".", ".">>

\* C4: once a call of run_until_meeting_or_max has ended, a later call
\* leaves the turn sequence unchanged, so that the bound on the number of
\* turns and the alternation of speakers hold after any sequence of calls.
C4_TerminalStatesAbsorbing ==
  /\ start_len > 0 => Len(turns) = start_len
  /\ Len(turns) <= run.max_messages
  /\ DistinctNames => Alternates(turns)

\* C5: every provider call returning, a call of run_until_meeting_or_max
\* reaches its end after at most max_messages iterations, whichever
\* providers are enabled, disabled or failing, and no exception of a
\* provider leaves it.
C5_RunAlwaysCompletes ==
  /\ [](pc # "raised")
  /\ [](turns_taken <= run.max_messages)
  /\ (pc = "while") ~> Ended

C5_Witness ==
  /\ pc = "exhausted"
  /\ turns_taken = MaxMessages
  /\ outcome.kind = "raise"
  /\ \E n \in DOMAIN providers : ~providers[n]._enabled

\* The kickoff text of the first speaker: its opening instruction, the
\* default when it has none.
FirstKickoff ==
  IF agents[1].initial_prompt \in {None, Some(<<>>)}
  THEN DefaultKickoff ELSE agents[1].initial_prompt[1]

GenericFallback == GenericSuggestion \o <<" ">> \o UnavailableNote

ConcreteFallback == ConcreteSuggestion \o <<" ">> \o UnavailableNote

\* C6 as stated (here for two agents of distinct names): a run with both
\* providers disabled produces exactly max_messages turns, alternating,
\* all of them local fallback replies, and ends by the budget, whatever the
\* opening instruction of the first speaker.
C6_DisabledRunExhaustsBudget ==
  (BothDisabled /\ DistinctNames /\ start_len = 0 /\ Ended) =>
    /\ Len(turns) = run.max_messages
    /\ Alternates(turns)
    /\ \A i \in 1..Len(turns) :
         turns[i].text \in {GenericFallback, ConcreteFallback}
    /\ pc = "exhausted"

\* C6 amended: a run from an empty history with both providers disabled and
\* two distinct names records only fallback replies of alternating
\* speakers; it produces exactly max_messages turns and ends by the budget
\* if the first speaker's kickoff text is outside the meeting vocabulary,
\* and if the kickoff text is inside it the first two replies are the
\* concrete proposal, so that with max_messages >= 2 the run ends by
\* agreement after exactly 2 turns.
C6_DisabledRunByKickoff ==
  (BothDisabled /\ DistinctNames /\ start_len = 0 /\ Ended) =>
    /\ Alternates(turns)
    /\ \A i \in 1..Len(turns) :
         turns[i].text \in {GenericFallback, ConcreteFallback}
    /\ IF MEETING_RE(FirstKickoff) /\ run.max_messages >= 2
       THEN /\ pc = "break"
            /\ Len(turns) = 2
            /\ \A i \in 1..2 : turns[i].text = ConcreteFallback
       ELSE /\ pc = "exhausted"
            /\ Len(turns) = run.max_messages

C6_Witness ==
  /\ BothDisabled
  /\ DistinctNames
  /\ start_len = 0
  /\ run.max_messages = MaxMessages
  /\ agents[1].initial_prompt = Some(OpeningInvite)
  /\ pc = "break"
  /\ Len(turns) = 2

\* C7: generate never raises on a provider failure: disabled it returns a
\* fallback reply with the note "(provider unavailable)", and when the
\* remote call raises or the reading of its response raises it returns a
\* fallback reply with the note "(provider error: ...)"; both are non-empty.
C7_GenerateFallsBack ==
  prompt_messages # <<>> =>
    /\ pc # "raised"
    /\ outcome.kind = "none" =>
         Contains(reply, UnavailableNote) /\ NonBlank(reply)
    /\ outcome.kind \in {"raise", "bad_response"} =>
         /\ Contains(reply, <<"(", "provider", " ", "error", ":", " ">>
                             \o outcome.exc \o <<")">>)
         /\ NonBlank(reply)

C7_Witness ==
  /\ outcome.kind = "bad_response"
  /\ Contains(reply, <<"(", "provider", " ", "error", ":", " ", "timeout", ")">>)
  /\ LastTurn.text = reply

\* The sample texts by the vocabularies, read off the texts: a meeting
\* verb, a day or a clock time; a confirmation word; a hit of the fifth
\* pattern of MEETING_PATTERNS.
ProposalTexts == {TextProposal, TextAt9h}

ConfirmationTexts == {TextPerfect, TextOk}

FifthPatternTexts == {TextPerfect, TextSatisfied}

\* C8 as stated: meeting_agreed is false below 2 turns and otherwise true
\* exactly if the second-to-last text is in the proposal vocabulary
\* (meeting verbs, day and time expressions, clock times) and the last text
\* is in the acceptance vocabulary (confirmation words) or the proposal
\* vocabulary.
C8_AgreedIffProposalThenAcceptance ==
  pc = "meeting_agreed" =>
    (agreed <=>
       /\ Len(turns) >= 2
       /\ turns[Len(turns) - 1].text \in ProposalTexts
       /\ LastTurn.text \in ConfirmationTexts \cup ProposalTexts)

\* C8 amended: meeting_agreed is false below 2 turns and otherwise true
\* exactly if the second-to-last text matches MEETING_RE, which besides
\* the proposal vocabulary holds the confirmation phrases of its fifth
\* pattern (funciona, pode ser, combinado, feito, perfeito, fechado, partly
\* matched inside longer words), and the last text matches ACCEPTANCE_RE
\* (the whole words combinado, feito, perfeito, fechado, ok) or MEETING_RE;
\* nothing but the texts of the last two turns decides.
C8_AgreedIffMeetingThenAcceptance ==
  pc = "meeting_agreed" =>
    (agreed <=>
       /\ Len(turns) >= 2
       /\ turns[Len(turns) - 1].text \in ProposalTexts \cup FifthPatternTexts
       /\ LastTurn.text
            \in ConfirmationTexts \cup ProposalTexts \cup FifthPatternTexts)

C8_Witness ==
  /\ pc = "meeting_agreed"
  /\ Len(turns) = 3
  /\ turns[1].text = TextHowAreYou
  /\ turns[2].text = TextPerfect
  /\ turns[3].text = TextOk
  /\ agreed

\* C9: a TwoAgentChat whose agents have the same name, or whose run
\* settings are invalid, is rejected with an error and records no turn.
C9_MalformedConfigurationRejected == ~ValidConfiguration => turns = <<>>

\* The context of a first turn: the system message, then the kickoff.
KickoffContext(speaker) ==
  <<[role |-> "system", content |-> speaker.system_preamble],
    [role |-> "user",
     content |-> IF speaker.initial_prompt \in {None, Some(<<>>)}
                 THEN DefaultKickoff ELSE speaker.initial_prompt[1]]>>

\* C10: on an empty history build_messages_for(speaker) returns exactly the
\* system message with the speaker's system instruction and one user
\* message with the speaker's opening instruction, or the default kickoff
\* text when it has none, and leaves the history unchanged.
C10_KickoffContext ==
  [][(pc' = "build_messages_for" /\ turns = <<>>) =>
       /\ prompt_messages' = KickoffContext(agents[current_index' + 1])
       /\ turns' = <<>>]_vars

C10_Witness ==
  /\ pc = "build_messages_for"
  /\ turns = <<>>
  /\ current_index = 1
  /\ Len(prompt_messages) = 2
  /\ prompt_messages[2] = [role |-> "user", content |-> OpeningInvite]

\* The blocks of a transcript, one per turn: "**speaker**: text" and an
\* empty line.
RECURSIVE Blocks(_)
Blocks(ts) ==
  IF ts = <<>> THEN <<>>
  ELSE <<"**", ts[1].speaker, "**", ":", " ">> \o ts[1].text
         \o <<"\n", "\n">> \o Blocks(Tail(ts))

\* The exported document: title, subtitle if any, timestamp line, rule,
\* blocks.
Document(title, subtitle, now, ts) ==
  <<"#", " ">> \o title \o <<"\n", "\n">>
    \o (IF subtitle \in {None, Some(<<>>)} THEN <<>>
        ELSE <<"_">> \o subtitle[1] \o <<"_", "\n", "\n">>)
    \o <<">", " ", "Transcript", " ", "gerado", " ", "em", " ", now,
          "\n", "\n", "---", "\n", "\n">>
    \o Blocks(ts)

\* A document with its timestamp blanked.
Redact(doc) ==
  [i \in DOMAIN doc |-> IF doc[i] \in Timestamps THEN "<now>" ELSE doc[i]]

\* C11: export_markdown overwrites and is idempotent: after an export the
\* destination holds exactly the header and one block per current turn in
\* turn order, whatever it held before; the turn sequence and the other
\* files are unchanged; exporting over an export of the same turn sequence
\* gives the same document apart from the timestamp.
C11_ExportOverwrites ==
  [][(export_call' # export_call \/ files' # files) =>
       LET c == export_call'[1]
       IN /\ turns' = turns
          /\ files'[c.path] = Some(Document(c.title, c.subtitle, c.now, turns))
          /\ \A p \in Paths \ {c.path} : files'[p] = files[p]
          /\ (\E t \in Timestamps :
                files[c.path] = Some(Document(c.title, c.subtitle, t, turns)))
               => Redact(files'[c.path][1]) = Redact(files[c.path][1])]_vars

C11_Witness ==
  /\ Len(turns) = 3
  /\ export_call # None
  /\ export_call[1].path = "tinder_conversation.md"
  /\ export_call[1].now = "2026-11-02 17:46"
  /\ files["tinder_conversation.md"]
       = Some(Document(Title, Some(<<"pt", "-", "PT">>), "2026-11-02 17:46",
                       turns))
  /\ files["copy.md"]
       = Some(Document(Title, None, "2026-11-02 17:45", SubSeq(turns, 1, 1)))

\* C12: on a non-empty history build_messages_for(speaker) returns the
\* system message followed by one message per recorded turn, in turn order
\* and with the turn's text, of role "assistant" for the turns recorded
\* under the speaker's name and "user" for the others, no kickoff message,
\* and leaves the history unchanged.
C12_ReplayContext ==
  [][(pc' = "build_messages_for" /\ turns # <<>>) =>
       LET speaker == agents[current_index' + 1]
       IN /\ turns' = turns
          /\ Len(prompt_messages') = 1 + Len(turns)
          /\ prompt_messages'[1]
               = [role |-> "system", content |-> speaker.system_preamble]
          /\ \A i \in 1..Len(turns) :
               /\ prompt_messages'[i + 1].content = turns[i].text
               /\ prompt_messages'[i + 1].role
                    = IF turns[i].speaker = speaker.name
                      THEN "assistant" ELSE "user"]_vars

C12_Witness ==
  /\ pc = "build_messages_for"
  /\ DistinctNames
  /\ current_index = 1
  /\ agents[2].initial_prompt = Some(OpeningInvite)
  /\ Len(turns) = 3
  /\ turns[1].speaker = NameA /\ turns[2].speaker = NameB
  /\ turns[3].speaker = NameA
  /\ Len(prompt_messages) = 4
  /\ prompt_messages[2] = [role |-> "user", content |-> turns[1].text]
  /\ prompt_messages[3] = [role |-> "assistant", content |-> turns[2].text]
  /\ prompt_messages[4] = [role |-> "user", content |-> turns[3].text]

\* C13: a run from an empty history stops at the earliest turn at which
\* agreement is detected: while it goes on meeting_agreed is false on the
\* recorded turns and on each of their prefixes, and when it has ended
\* meeting_agreed(turns) holds or len(turns) = max_messages, meeting_agreed
\* being false on every proper prefix.
C13_StopsAtEarliestAgreement ==
  start_len = 0 =>
    /\ \A k \in 0..(Len(turns) - 1) : ~meeting_agreed(SubSeq(turns, 1, k))
    /\ pc = "while" => ~meeting_agreed(turns)
    /\ pc = "break" => meeting_agreed(turns)
    /\ Ended => (meeting_agreed(turns) \/ Len(turns) = run.max_messages)

C13_Witness ==
  /\ start_len = 0
  /\ pc = "break"
  /\ run.max_messages = MaxMessages
  /\ Len(turns) = 2
  /\ outcome.kind = "content"
  /\ turns[1].text = <<"Café", " ", "amanhã", "?">>
  /\ turns[2].text = <<"Café", " ", "amanhã", "?">>

\* C14: the delay is taken only between two turns: when a run from an empty
\* history with a positive delay has ended after n >= 1 turns, it has slept
\* at most n - 1 times, no sleep following the turn that completes an
\* agreement or exhausts the budget.
C14_DelayOnlyBetweenTurns ==
  (start_len = 0 /\ Ended /\ turns # <<>>) => slept <= Len(turns) - 1

\* C15: the adapter's mode is fixed at construction: an adapter built
\* without a credential or whose client construction failed is disabled, no
\* step changes an adapter (a failing remote call does not disable it), and
\* a call of generate on a disabled adapter issues no remote request.
C15_ModeFixedAtConstruction ==
  /\ [](\A has_openai \in BOOLEAN, key \in BOOLEAN, client_ok \in BOOLEAN :
          (~key \/ ~client_ok) =>
            ~Provider(has_openai, key, client_ok)._enabled)
  /\ [][providers' = providers]_vars
  /\ []((turns # <<>> /\ prompt_messages # <<>>
          /\ ~providers[LastTurn.speaker]._enabled) => outcome.kind = "none")

C15_Witness ==
  /\ DistinctNames
  /\ Len(turns) = 3
  /\ Contains(turns[1].text, <<"(", "provider", " ", "error", ":">>)
  /\ ~providers[turns[2].speaker]._enabled
  /\ Contains(turns[2].text, <<"(", "provider", " ", "unavailable", ")">>)
  /\ turns[3].speaker = turns[1].speaker
  /\ providers[turns[3].speaker]._enabled
  /\ outcome.kind = "content"
  /\ turns[3].text = <<"Olá", "!">>

\* The last user-role message of the context of the last call is in the
\* meeting vocabulary.
LastUserMessageMatches ==
  \E i \in 1..Len(prompt_messages) :
    /\ prompt_messages[i].role = "user"
    /\ \A j \in (i + 1)..Len(prompt_messages) : prompt_messages[j].role # "user"
    /\ MEETING_RE(prompt_messages[i].content)

\* C16: the fallback reply is the concrete proposal if the last user-role
\* message of the context matches the meeting vocabulary and the generic
\* suggestion otherwise, followed by the diagnostic note; nothing else of
\* the context decides it.
C16_FallbackByLastUserMessage ==
  (pc = "generate" /\ outcome.kind \in {"none", "raise", "bad_response"}) =>
    reply = (IF LastUserMessageMatches
             THEN <<"Vamos", " ", "combinar", " ", "um", " ", "café", " ",
                    "quinta", " ", "às", " ", "19", ":", "00", "?">>
             ELSE GenericSuggestion)
            \o <<" ">>
            \o (IF outcome.kind = "none"
                THEN <<"(", "provider", " ", "unavailable", ")">>
                ELSE <<"(", "provider", " ", "error", ":", " ">>
                       \o outcome.exc \o <<")">>)

C16_Witness ==
  /\ pc = "generate"
  /\ outcome.kind = "raise"
  /\ DistinctNames
  /\ current_index = 1
  /\ Len(turns) = 3
  /\ \A i \in 1..3 : turns[i].speaker = NameA
  /\ turns[1].text = TextProposal
  /\ turns[3].text = TextHowAreYou
  /\ reply = GenericSuggestion
               \o <<" ", "(", "provider", " ", "error", ":", " ", "timeout", ")">>

\* The texts a kickoff message can have in a chat of these agents.
KickoffTexts ==
  {DefaultKickoff}
    \cup {agents[i].initial_prompt[1] :
            i \in {i \in 1..2 : agents[i].initial_prompt # None}}

\* C17: in a run the context of a provider call holds a kickoff message
\* only when the history is empty: the context of the first call of a run
\* from an empty history is the system message and the first speaker's
\* kickoff, the context of every later call is the system message and the
\* recorded turns, so the second speaker's opening instruction is never
\* sent.
C17_KickoffOnlyOnEmptyHistory ==
  [][(pc = "while" /\ turns' # turns) =>
       /\ prompt_messages'[1].role = "system"
       /\ IF turns = <<>>
          THEN /\ current_index = 0
               /\ Len(prompt_messages') = 2
               /\ prompt_messages'[2].role = "user"
               /\ prompt_messages'[2].content
                    = IF agents[1].initial_prompt \in {None, Some(<<>>)}
                      THEN DefaultKickoff ELSE agents[1].initial_prompt[1]
          ELSE /\ Len(prompt_messages') = 1 + Len(turns)
               /\ \A i \in 1..Len(turns) :
                    /\ prompt_messages'[i + 1].content = turns[i].text
                    /\ prompt_messages'[i + 1].content \notin KickoffTexts]_vars

C17_Witness ==
  /\ start_len = 0
  /\ DistinctNames
  /\ agents[2].initial_prompt = Some(OpeningInvite)
  /\ Len(turns) = 2
  /\ turns[2].speaker = NameB
  /\ Len(prompt_messages) = 2
  /\ prompt_messages[2].content = turns[1].text
  /\ \A i \in 1..2 : prompt_messages[i].content # OpeningInvite

\* The last turn is a fallback reply to a call that followed a turn in the
\* meeting vocabulary.
FallbackAfterMeetingTurn ==
  /\ Len(turns) >= 2
  /\ turns_taken > 0
  /\ outcome.kind \in {"none", "raise", "bad_response"}
  /\ MEETING_RE(turns[Len(turns) - 1].text)

\* The run has ended by agreement on the concrete proposal as last turn.
EndedOnConcreteProposal ==
  /\ Contains(LastTurn.text,
              <<"Vamos", " ", "combinar", " ", "um", " ", "café", " ",
                "quinta", " ", "às", " ", "19", ":", "00", "?">>)
  /\ agreed
  /\ pc = "break"

C19_ContextEndsWithOtherParty ==
  [][(pc = "while" /\ turns' # turns /\ start_len = 0 /\ DistinctNames) =>
       LET n == Len(prompt_messages')
       IN /\ n = 1 + (IF Len(turns) > 1 THEN Len(turns) ELSE 1)
          /\ prompt_messages'[n].role = "user"
          /\ turns # <<>> =>
               /\ prompt_messages'[n].content = LastTurn.text
               /\ LastTurn.speaker # agents[current_index + 1].name
               /\ LastTurn.speaker \in {agents[1].name, agents[2].name}
               /\ \A i \in 2..(n - 1) :
                    /\ prompt_messages'[i].role \in {"user", "assistant"}
                    /\ prompt_messages'[i].role # prompt_messages'[i + 1].role]_vars

C19_Witness ==
  /\ start_len = 0
  /\ DistinctNames
  /\ Len(turns) = 3
  /\ turns[3].speaker = NameA
  /\ Len(prompt_messages) = 3
  /\ prompt_messages[2] = [role |-> "assistant", content |-> turns[1].text]
  /\ prompt_messages[3] = [role |-> "user", content |-> turns[2].text]

====
